---- MODULE Spec2Model ----
(***************************************************************************)
(* Transcription gateway: the process-wide single-slot engine cache of     *)
(* backend/app/transcribe.py (get_model, transcribe_file) and the request  *)
(* handler of backend/app/main.py (startup, _require_api_key, transcribe). *)
(*                                                                         *)
(* The specifications share the state:                                     *)
(*   Spec        the HTTP server: startup warm-up, then NumReq concurrent  *)
(*               POST /v1/transcribe requests (SpecLive: with fairness);   *)
(*   SpecSingle  the HTTP server serving one request, drawn from the full  *)
(*               range of filenames, language fields and engine outputs;   *)
(*   SpecCache   NumReq concurrent threads calling get_model directly with *)
(*               arbitrary (model_size, device, compute_type) arguments    *)
(*               (SpecCacheLive: with fairness);                           *)
(*   SpecFile    one thread calling transcribe_file directly.              *)
(***************************************************************************)
EXTENDS Integers, Sequences, FiniteSets, TLC

\* ------------------------------------------------------------------ bounds
NumReq == 2              \* concurrent workers (requests / get_model callers)
MAX_UPLOAD_BYTES == 2    \* the configured maximum body length, scaled down
MaxSegs == 2             \* most segments the engine emits for one file

\* --------------------------------------------------------------- constants
None == "None"           \* Python None, and an unset environment variable
NoThread == 0            \* _model_lock is free
NoHandle == 0            \* _model is None
NoPath == 0              \* tmp_path is None
NoDuration == -1         \* info has no duration (getattr(...) is None)

Threads == 1..NumReq

\* The names NamedTemporaryFile can generate in /tmp.
Paths == 1..NumReq

ALLOWED_MODELS == {"base", "small", "medium", "large-v2", "large-v3"}

\* Inputs the environment can supply.
ModelInputs == {"small", "base", "tiny"}
KeyInputs == {None, "", "k1", "k2"}
SecretInputs == {"", "k1"}
SizeInputs == {MAX_UPLOAD_BYTES, MAX_UPLOAD_BYTES + 1}
DeviceArgs == {None, "cuda"}
ComputeArgs == {None, "float16"}
DeviceEnv == {None, "cuda"}
ComputeEnv == {None, "int8"}
ExcTypes == {"ValueError", "RuntimeError"}

\* What the engine can emit.  A text is a sequence of characters; times are in
\* milliseconds.
SegTexts == {<<" ", "a">>, <<"b", " ">>, <<"a", " ", "b">>, <<" ">>}
SegTimes == {[start |-> 0, end |-> 0], [start |-> 1000, end |-> 2346]}
Segments == {[start |-> tm.start, end |-> tm.end, text |-> tx] :
                tm \in SegTimes, tx \in SegTexts}
Durations == {NoDuration, 0, 1234}
Languages == {None, "", "fr"}
BoundedSeq(S, n) == UNION {[1..k -> S] : k \in 0..n}
EngineOutputs ==
    [segments : BoundedSeq(Segments, MaxSegs), duration : Durations,
     language : Languages]
\* The outputs a request of the server is run with: silence, and one utterance.
RequestOutputs ==
    {[segments |-> <<>>, duration |-> NoDuration, language |-> None],
     [segments |-> <<[start |-> 1000, end |-> 2346, text |-> <<" ", "a">>]>>,
      duration |-> 1234, language |-> "fr"]}

\* The outputs the single request of SpecSingle is run with.
SingleOutputs ==
    RequestOutputs \cup {[segments |-> <<>>, duration |-> 0, language |-> ""]}

\* An Optional[str] whose text matters is <<>> for None and <<s>> for the
\* string s, s a sequence of characters or, in a filename, of name parts with
\* "." and "/" on their own.
LanguageFields ==
    {<<>>, << <<>> >>, << <<" ">> >>, << <<" ", "f", "r", " ">> >>, << <<"e", "n">> >>}
Filenames ==
    {<<>>, << <<>> >>, << <<"a">> >>,
     << <<"a", ".", "mp3">> >>, << <<"a", ".", "tar", ".", "wav">> >>,
     << <<"a", ".", "MP3">> >>, << <<"a", ".", "exe">> >>, << <<"a", ".", "bin">> >>,
     << <<".", "wav">> >>, << <<"a", ".">> >>, << <<"a", ".", "wav", "/", "b">> >>,
     << <<"d", "/", "a", ".", "flac">> >>}

\* What one request can be given, by the kind of the run it belongs to.
OutputsFor(kind) ==
    IF kind = "http" THEN RequestOutputs
    ELSE IF kind = "single" THEN SingleOutputs
    ELSE EngineOutputs
LanguagesFor(kind) == IF kind = "single" THEN LanguageFields ELSE {<<>>}
FilenamesFor(kind) == IF kind = "single" THEN Filenames ELSE {<< <<"a", ".", "wav">> >>}
\* How the finally block can find the staged file: still there and unlinked,
\* already removed from /tmp (os.path.exists is false), or removed between
\* the test and os.unlink, which then raises FileNotFoundError.
CleanupsFor(kind) ==
    IF kind = "single" THEN {"unlinked", "gone", "oserror"} ELSE {"unlinked"}

\* Messages carried by exceptions and by HTTP error details.
MsgGetModel == "model must be one of ALLOWED_MODELS, got model_size"
MsgEngine == "engine error text"
MsgConstruct == "engine load error text"
MsgStaging == "os error text"

VARIABLES
    TRANSCRIBE_API_KEY,     \* main.py: the configured secret ("" when unset)
    WHISPER_DEVICE,         \* environment variable, None when unset
    WHISPER_COMPUTE_TYPE,   \* environment variable, None when unset
    _model,                 \* transcribe.py: the cached handle (NoHandle = None)
    _model_lock,            \* the thread holding the lock, or NoThread
    _loaded_model_name,
    _loaded_device,
    _loaded_compute_type,
    engines,                \* engines[h]: the triple handle h was constructed with
    started,                \* the startup handler has run
    files,                  \* the temp files in /tmp: [name, creator]
    req,                    \* per worker: position, inputs, locals, outcome
    lastOk,                 \* history: (triple, handle) of the latest get_model that returned
    lastFail                \* history: triple of the latest get_model, if its construction raised

cacheVars == <<_model, _loaded_model_name, _loaded_device, _loaded_compute_type>>
histVars == <<lastOk, lastFail>>
envVars == <<TRANSCRIBE_API_KEY, WHISPER_DEVICE, WHISPER_COMPUTE_TYPE>>
vars == <<TRANSCRIBE_API_KEY, WHISPER_DEVICE, WHISPER_COMPUTE_TYPE, _model,
          _model_lock, _loaded_model_name, _loaded_device, _loaded_compute_type,
          engines, started, files, req, lastOk, lastFail>>

\* ------------------------------------------------------------ pure helpers
\* Python truthiness of an Optional[str].
Truthy(s) == s # None /\ s # ""

\* os.environ.get(name, default)
EnvGet(value, default) == IF value = None THEN default ELSE value

\* transcribe.py 31: device = device or os.environ.get("WHISPER_DEVICE", "cpu")
ResolveDevice(device) ==
    IF Truthy(device) THEN device ELSE EnvGet(WHISPER_DEVICE, "cpu")

\* transcribe.py 32-35
ResolveComputeType(device, compute_type) ==
    IF Truthy(compute_type) THEN compute_type
    ELSE IF device = "cuda" THEN EnvGet(WHISPER_COMPUTE_TYPE, "float16")
         ELSE EnvGet(WHISPER_COMPUTE_TYPE, "int8")

\* The triple get_model works with after lines 31-35.
Triple(model_size, device, compute_type) ==
    [model_size |-> model_size,
     device |-> ResolveDevice(device),
     compute_type |-> ResolveComputeType(ResolveDevice(device), compute_type)]

NoTriple == [model_size |-> None, device |-> None, compute_type |-> None]

\* str.strip(), with " " the whitespace character.
RECURSIVE LStrip(_)
LStrip(s) ==
    IF s = <<>> THEN s ELSE IF Head(s) = " " THEN LStrip(Tail(s)) ELSE s

RECURSIVE RStrip(_)
RStrip(s) ==
    IF s = <<>> THEN s
    ELSE IF s[Len(s)] = " " THEN RStrip(SubSeq(s, 1, Len(s) - 1)) ELSE s

Strip(s) == RStrip(LStrip(s))

\* sep.join(parts)
RECURSIVE Join(_, _)
Join(sep, parts) ==
    IF parts = <<>> THEN <<>>
    ELSE IF Len(parts) = 1 THEN parts[1]
    ELSE parts[1] \o sep \o Join(sep, Tail(parts))

\* transcribe.py 73: " ".join(s.text for s in segments_list).strip()
TextOf(out) ==
    Strip(Join(<<" ">>, [i \in 1..Len(out.segments) |-> out.segments[i].text]))

\* Mutant: `if not duration_sec and segments_list` instead of `is None`.
DurationOf_Falsy(out) ==
    LET d == IF out.duration \in {NoDuration, 0} /\ out.segments # <<>>
             THEN out.segments[Len(out.segments)].end
             ELSE out.duration
    IN  IF d = NoDuration \/ d = 0 THEN 0 ELSE d

\* transcribe.py 74-77: the three-tier duration fallback.
DurationOf(out) ==
    LET d == IF out.duration = NoDuration /\ out.segments # <<>>
             THEN out.segments[Len(out.segments)].end
             ELSE out.duration
    IN  IF d = NoDuration \/ d = 0 THEN 0 ELSE d

\* Mutant: the segment list is built whatever the flag.
SegmentsOf_Always(out, include_timestamps) ==
    [i \in 1..Len(out.segments) |->
        [start |-> out.segments[i].start, end |-> out.segments[i].end,
         text |-> Strip(out.segments[i].text)]]

\* transcribe.py 79-85
SegmentsOf(out, include_timestamps) ==
    IF include_timestamps
    THEN [i \in 1..Len(out.segments) |->
            [start |-> out.segments[i].start, end |-> out.segments[i].end,
             text |-> Strip(out.segments[i].text)]]
    ELSE <<>>

\* transcribe.py 72-86: the tuple transcribe_file returns for engine output out.
TranscribeResult(out, include_timestamps) ==
    [text |-> TextOf(out), detected |-> out.language,
     duration_sec |-> DurationOf(out),
     segments |-> SegmentsOf(out, include_timestamps)]

\* round(x, 2) of a time in milliseconds: the nearest multiple of 10, a tie
\* going to the even hundredth.
Round2(ms) ==
    LET q == ms \div 10
        r == ms % 10
    IN  IF r < 5 THEN 10 * q
        ELSE IF r > 5 THEN 10 * (q + 1)
        ELSE IF q % 2 = 0 THEN 10 * q ELSE 10 * (q + 1)

\* Mutant: the language is passed on as the engine reported it.
Payload_NoDefault(res) ==
    [language |-> res.detected,
     duration_sec |-> Round2(res.duration_sec),
     text |-> res.text,
     segments |-> res.segments]

\* main.py 108-113: the success payload.
Payload(res) ==
    [language |-> IF Truthy(res.detected) THEN res.detected ELSE "en",
     duration_sec |-> Round2(res.duration_sec),
     text |-> res.text,
     segments |-> res.segments]

\* Mutant: the field is not stripped.
LangParam_NoStrip(language) ==
    IF language = <<>> \/ language[1] = <<>> THEN <<>> ELSE language

\* main.py 95: lang_param = (language or "").strip() or None
LangParam(language) ==
    LET s == Strip(IF language = <<>> THEN <<>> ELSE language[1])
    IN  IF s = <<>> THEN <<>> ELSE <<s>>

\* str.rfind(c), counted from 1, 0 when c does not occur.
LastIndexOf(s, c) ==
    LET I == {i \in 1..Len(s) : s[i] = c}
    IN  IF I = {} THEN 0 ELSE CHOOSE i \in I : \A j \in I : j <= i

\* pathlib: PurePath(f).name, the final component of the path.
PathName(f) == SubSeq(f, LastIndexOf(f, "/") + 1, Len(f))

\* pathlib: PurePath(f).suffix, the final component from its last dot, empty
\* when that dot is its first or its last character.
PathSuffix(f) ==
    LET name == PathName(f)
        i == LastIndexOf(name, ".")
    IN  IF 1 < i /\ i < Len(name) THEN SubSeq(name, i, Len(name)) ELSE <<>>

\* main.py 86: the suffixes a staged file may carry.
AllowedSuffixes ==
    {<<".", "m4a">>, <<".", "mp3">>, <<".", "wav">>, <<".", "webm">>,
     <<".", "ogg">>, <<".", "flac">>, <<".", "bin">>}

\* main.py 69: filename = file.filename or "audio"
DeclaredName(filename) ==
    IF filename = <<>> \/ filename[1] = <<>> THEN <<"audio">> ELSE filename[1]

\* Mutant: the allow-list of lines 86-87 is not applied.
StagedSuffix_Unchecked(filename) ==
    LET suffix == PathSuffix(DeclaredName(filename))
    IN  IF suffix = <<>> THEN <<".", "bin">> ELSE suffix

\* main.py 85-87: the suffix passed to NamedTemporaryFile.
StagedSuffix(filename) ==
    LET suffix == IF PathSuffix(DeclaredName(filename)) = <<>> THEN <<".", "bin">>
                  ELSE PathSuffix(DeclaredName(filename))
    IN  IF suffix \in AllowedSuffixes THEN suffix ELSE <<".", "bin">>

\* Mutant: the membership test is dropped.
ModelAllowed_Any(m) == TRUE

\* transcribe.py 28 / main.py 62
ModelAllowed(m) == m \in ALLOWED_MODELS

\* Mutant: a cached engine is reused whatever it was constructed with.
NeedsLoad_EmptyOnly(c) == _model = NoHandle

\* Mutant: the device comparison of line 41 is missing.
NeedsLoad_NoDevice(c) ==
    \/ _model = NoHandle
    \/ _loaded_model_name # c.model_size
    \/ _loaded_compute_type # c.compute_type

\* transcribe.py 38-43: the reload condition, evaluated under the lock.
NeedsLoad(c) ==
    \/ _model = NoHandle
    \/ _loaded_model_name # c.model_size
    \/ _loaded_device # c.device
    \/ _loaded_compute_type # c.compute_type

\* Mutant: get_model does not wait for the lock.
LockFree_NoWait == TRUE

\* transcribe.py 37: the lock can be taken
LockFree == _model_lock = NoThread

\* Mutant: only the presence of the header is checked.
RequireApiKey_PresenceOnly(x_api_key) ==
    IF ~Truthy(TRANSCRIBE_API_KEY) THEN 500
    ELSE IF ~Truthy(x_api_key) THEN 401
    ELSE 0

\* Mutant: the check of line 41 for an unconfigured secret is missing.
RequireApiKey_NoSecretCheck(x_api_key) ==
    IF ~Truthy(x_api_key) \/ x_api_key # TRANSCRIBE_API_KEY THEN 401 ELSE 0

\* main.py 41-44: the status _require_api_key raises, 0 when it returns.
RequireApiKey(x_api_key) ==
    IF ~Truthy(TRANSCRIBE_API_KEY) THEN 500
    ELSE IF ~Truthy(x_api_key) \/ x_api_key # TRANSCRIBE_API_KEY THEN 401
    ELSE 0

RequireApiKeyDetail(status) ==
    IF status = 500 THEN "Server missing TRANSCRIBE_API_KEY"
    ELSE "Invalid or missing X-API-Key"

\* Mutant: >= instead of >.
TooLarge_Inclusive(size) == size >= MAX_UPLOAD_BYTES

\* main.py 79
TooLarge(size) == size > MAX_UPLOAD_BYTES

\* main.py 114-118: the except clauses around staging and transcribe_file.
HandlerStatus(excType) == IF excType = "ValueError" THEN 400 ELSE 500
HandlerDetail(excType, msg) ==
    IF excType = "ValueError" THEN msg ELSE "Transcription failed"

\* os.path.exists(p) for a name p of /tmp.
Exists(p) == \E f \in files : f.name = p

\* Mutant: the finally block does not unlink.
FilesAfterCleanup_Kept(r) == files

\* Mutant: the finally block empties /tmp.
FilesAfterCleanup_All(r) == IF req[r].tmp_path # NoPath THEN {} ELSE files

\* main.py 119-124: the files left once the finally block has run; os.unlink
\* removes whatever file has the name.
FilesAfterCleanup(r) ==
    IF req[r].tmp_path # NoPath /\ Exists(req[r].tmp_path)
    THEN {f \in files : f.name # req[r].tmp_path}
    ELSE files

\* ------------------------------------------------------------------- state
FreshReq(kind, pc) ==
    [kind |-> kind, pc |-> pc,
     x_api_key |-> None, model |-> None, device |-> None, compute_type |-> None,
     size |-> -1, bodyRead |-> FALSE,
     filename |-> <<>>, suffix |-> <<>>,
     created |-> FALSE, f_name |-> NoPath, tmp_path |-> NoPath, staged |-> FALSE,
     language |-> <<>>, lang_param |-> <<>>, hint |-> <<>>, cleanup |-> None,
     gmCalled |-> FALSE, loaded |-> FALSE, handle |-> NoHandle,
     engineCalled |-> FALSE,
     timestamps |-> FALSE, out |-> <<>>, result |-> <<>>, payload |-> <<>>,
     excType |-> None, excAt |-> None,
     status |-> 0, detail |-> None]

InitCommon ==
    /\ WHISPER_DEVICE \in DeviceEnv
    /\ WHISPER_COMPUTE_TYPE \in ComputeEnv
    /\ _model = NoHandle
    /\ _model_lock = NoThread
    /\ _loaded_model_name = None
    /\ _loaded_device = None
    /\ _loaded_compute_type = None
    /\ engines = <<>>
    /\ files = {}
    /\ lastOk = [triple |-> NoTriple, handle |-> NoHandle]
    /\ lastFail = NoTriple

Init ==
    /\ InitCommon
    /\ WHISPER_COMPUTE_TYPE = None
    /\ TRANSCRIBE_API_KEY \in SecretInputs
    /\ started = FALSE
    /\ req = [t \in Threads |-> FreshReq("http", "start")]

\* One thread calls transcribe_file directly; the other workers stay idle.
InitFile ==
    /\ InitCommon
    /\ TRANSCRIBE_API_KEY = ""
    /\ started = TRUE
    /\ req = [t \in Threads |->
                IF t = 1 THEN FreshReq("file", "tf_call") ELSE FreshReq("file", "idle")]

\* The server serves one request; the other workers stay idle.
InitSingle ==
    /\ InitCommon
    /\ WHISPER_COMPUTE_TYPE = None
    /\ TRANSCRIBE_API_KEY \in SecretInputs
    /\ started = FALSE
    /\ req = [t \in Threads |->
                IF t = 1 THEN FreshReq("single", "start") ELSE FreshReq("single", "idle")]

InitCache ==
    /\ InitCommon
    /\ TRANSCRIBE_API_KEY = ""
    /\ started = TRUE
    /\ req = [t \in Threads |-> FreshReq("direct", "call")]

Set(t, r) == req' = [req EXCEPT ![t] = r]

\* An HTTPException raised outside the try block: the request ends at once.
Reject(t, r, status, detail) ==
    Set(t, [r EXCEPT !.pc = "done", !.status = status, !.detail = detail])

\* Mutant: the exception leaves the handler without passing the finally block.
Raised_NoFinally(r, e, at, msg) ==
    [r EXCEPT !.pc = "done", !.excType = e, !.excAt = at,
              !.status = HandlerStatus(e), !.detail = HandlerDetail(e, msg)]

\* An exception of type e raised at `at` with message msg.  In a request it is
\* raised inside the try block of main.py 90-113 and handled by 114-118, then
\* the finally block runs; a direct caller of get_model receives it.
Raised(r, e, at, msg) ==
    IF r.kind \in {"http", "single"}
    THEN [r EXCEPT !.pc = "finally", !.excType = e, !.excAt = at,
                   !.status = HandlerStatus(e), !.detail = HandlerDetail(e, msg)]
    ELSE [r EXCEPT !.pc = "done", !.excType = e, !.excAt = at, !.detail = msg]

\* ---------------------------------------------------------------- startup
\* Mutant: the warm-up loads another model than the requests' default.
StartupLoaded_Base ==
    /\ ~started
    /\ started' = TRUE
    /\ LET c == Triple("base", None, None) IN
       /\ _model' = Len(engines) + 1
       /\ engines' = Append(engines, c)
       /\ _loaded_model_name' = c.model_size
       /\ _loaded_device' = c.device
       /\ _loaded_compute_type' = c.compute_type
       /\ lastOk' = [triple |-> c, handle |-> Len(engines) + 1]
    /\ UNCHANGED <<envVars, _model_lock, files, req, lastFail>>

\* main.py 20-27: get_model(model_size="small") before any request is served.
StartupLoaded ==
    /\ ~started
    /\ started' = TRUE
    /\ LET c == Triple("small", None, None) IN
       /\ _model' = Len(engines) + 1
       /\ engines' = Append(engines, c)
       /\ _loaded_model_name' = c.model_size
       /\ _loaded_device' = c.device
       /\ _loaded_compute_type' = c.compute_type
       /\ lastOk' = [triple |-> c, handle |-> Len(engines) + 1]
    /\ UNCHANGED <<envVars, _model_lock, files, req, lastFail>>

StartupFailed ==
    /\ ~started
    /\ started' = TRUE
    /\ lastFail' = Triple("small", None, None)
    /\ UNCHANGED <<envVars, cacheVars, _model_lock, engines, files, req, lastOk>>

\* -------------------------------------------------------------- get_model
\* transcribe.py 28-35: validate model_size (ValueError) and resolve defaults.
\* r0 is the caller's record at the call.
GmEnterFrom(t, r0, model_size, device, compute_type) ==
    LET r == [r0 EXCEPT !.model = model_size, !.device = device,
                        !.compute_type = compute_type, !.gmCalled = TRUE]
    IN  /\ IF ModelAllowed(model_size)
           THEN Set(t, [r EXCEPT !.pc = "gm_lock"])
           ELSE Set(t, Raised(r, "ValueError", "get_model", MsgGetModel))
        /\ UNCHANGED <<envVars, cacheVars, _model_lock, engines, started, files, histVars>>

GmEnter(t, model_size, device, compute_type) ==
    GmEnterFrom(t, req[t], model_size, device, compute_type)

\* A thread calls get_model(model_size, device, compute_type).
CallGetModel(t) ==
    /\ req[t].pc = "call"
    /\ \E m \in ModelInputs, d \in DeviceArgs, c \in ComputeArgs : GmEnter(t, m, d, c)

ReqTriple(t) == Triple(req[t].model, req[t].device, req[t].compute_type)

\* transcribe.py 37-43: take the lock and evaluate the reload condition.
GmAcquire(t) ==
    /\ req[t].pc = "gm_lock"
    /\ LockFree
    /\ _model_lock' = t
    /\ Set(t, [req[t] EXCEPT !.pc = IF NeedsLoad(ReqTriple(t)) THEN "gm_load" ELSE "gm_hit"])
    /\ UNCHANGED <<envVars, cacheVars, engines, started, files, histVars>>

\* transcribe.py 44-51: WhisperModel(...) returned; record the handle and triple.
GmConstructOk(t) ==
    /\ req[t].pc = "gm_load"
    /\ LET c == ReqTriple(t) IN
       /\ _model' = Len(engines) + 1
       /\ engines' = Append(engines, c)
       /\ _loaded_model_name' = c.model_size
       /\ _loaded_device' = c.device
       /\ _loaded_compute_type' = c.compute_type
    /\ Set(t, [req[t] EXCEPT !.pc = "gm_hit", !.loaded = TRUE])
    /\ UNCHANGED <<envVars, _model_lock, started, files, histVars>>

\* Mutant: the triple is recorded before the constructor is called.
GmConstructFail_Recorded(t, e) ==
    /\ req[t].pc = "gm_load"
    /\ _model_lock' = NoThread
    /\ _loaded_model_name' = ReqTriple(t).model_size
    /\ _loaded_device' = ReqTriple(t).device
    /\ _loaded_compute_type' = ReqTriple(t).compute_type
    /\ Set(t, Raised(req[t], e, "construct", MsgConstruct))
    /\ lastFail' = ReqTriple(t)
    /\ UNCHANGED <<envVars, _model, engines, started, files, lastOk>>

\* Mutant: the lock is not released when the constructor raises.
GmConstructFail_KeepLock(t, e) ==
    /\ req[t].pc = "gm_load"
    /\ Set(t, Raised(req[t], e, "construct", MsgConstruct))
    /\ lastFail' = ReqTriple(t)
    /\ UNCHANGED <<envVars, cacheVars, _model_lock, engines, started, files, lastOk>>

\* transcribe.py 44-48: WhisperModel(...) raised; the with block releases the lock.
GmConstructFail(t, e) ==
    /\ req[t].pc = "gm_load"
    /\ _model_lock' = NoThread
    /\ Set(t, Raised(req[t], e, "construct", MsgConstruct))
    /\ lastFail' = ReqTriple(t)
    /\ UNCHANGED <<envVars, cacheVars, engines, started, files, lastOk>>

\* transcribe.py 52: return _model, leaving the with block.
GmReturn(t) ==
    /\ req[t].pc = "gm_hit"
    /\ _model_lock' = NoThread
    /\ Set(t, [req[t] EXCEPT !.pc = IF req[t].kind = "direct" THEN "done" ELSE "infer",
                             !.handle = _model])
    /\ lastOk' = [triple |-> ReqTriple(t), handle |-> _model]
    /\ lastFail' = NoTriple
    /\ UNCHANGED <<envVars, cacheVars, engines, started, files>>

\* ------------------------------------------------- POST /v1/transcribe
\* main.py 60: _require_api_key(x_api_key)
Auth(t) ==
    /\ started
    /\ req[t].pc = "start"
    /\ \E k \in KeyInputs :
         LET r == [req[t] EXCEPT !.x_api_key = k]
             s == RequireApiKey(k)
         IN  IF s # 0 THEN Reject(t, r, s, RequireApiKeyDetail(s))
             ELSE Set(t, [r EXCEPT !.pc = "validate"])
    /\ UNCHANGED <<envVars, cacheVars, _model_lock, engines, started, files, histVars>>

\* main.py 62-66
Validate(t) ==
    /\ req[t].pc = "validate"
    /\ \E m \in ModelInputs :
         LET r == [req[t] EXCEPT !.model = m]
         IN  IF ModelAllowed(m) THEN Set(t, [r EXCEPT !.pc = "read"])
             ELSE Reject(t, r, 400, "model must be one of ALLOWED_MODELS")
    /\ UNCHANGED <<envVars, cacheVars, _model_lock, engines, started, files, histVars>>

\* main.py 72-73: content = await file.read()
ReadBody(t) ==
    /\ req[t].pc = "read"
    /\ \E n \in SizeInputs :
         Set(t, [req[t] EXCEPT !.pc = "sizecheck", !.size = n, !.bodyRead = TRUE])
    /\ UNCHANGED <<envVars, cacheVars, _model_lock, engines, started, files, histVars>>

\* main.py 74-76: file.read() raised
ReadFail(t) ==
    /\ req[t].pc = "read"
    /\ Reject(t, req[t], 400, "Failed to read upload")
    /\ UNCHANGED <<envVars, cacheVars, _model_lock, engines, started, files, histVars>>

\* main.py 78-87: the size check; then the suffix is derived from the file's
\* declared name (read at line 69).
SizeCheck(t) ==
    /\ req[t].pc = "sizecheck"
    /\ IF TooLarge(req[t].size) THEN Reject(t, req[t], 413, "File too large")
       ELSE \E fn \in FilenamesFor(req[t].kind) :
              Set(t, [req[t] EXCEPT !.pc = "stage", !.filename = fn,
                                    !.suffix = StagedSuffix(fn)])
    /\ UNCHANGED <<envVars, cacheVars, _model_lock, engines, started, files, histVars>>

\* main.py 91: NamedTemporaryFile(delete=False, ...) created and opened a file
\* under a generated name that no existing file has (O_CREAT | O_EXCL); of the
\* names free at that moment the first is taken, so that a name is used again
\* as soon as it is free.
StageCreate(t) ==
    /\ req[t].pc = "stage"
    /\ \E p \in {q \in Paths : ~Exists(q) /\ \A x \in 1..(q - 1) : Exists(x)} :
         /\ files' = files \cup {[name |-> p, creator |-> t, suffix |-> req[t].suffix]}
         /\ Set(t, [req[t] EXCEPT !.pc = "write", !.created = TRUE, !.f_name = p])
    /\ UNCHANGED <<envVars, cacheVars, _model_lock, engines, started, histVars>>

\* main.py 91: NamedTemporaryFile raised; no file was created.
StageCreateFail(t) ==
    /\ req[t].pc = "stage"
    /\ Set(t, Raised(req[t], "OSError", "create", MsgStaging))
    /\ UNCHANGED <<envVars, cacheVars, _model_lock, engines, started, files, histVars>>

\* main.py 92-93: f.write(content); tmp_path = f.name; the with block closes f.
StageWrite(t) ==
    /\ req[t].pc = "write"
    /\ Set(t, [req[t] EXCEPT !.pc = "recognize", !.tmp_path = req[t].f_name,
                             !.staged = TRUE])
    /\ UNCHANGED <<envVars, cacheVars, _model_lock, engines, started, files, histVars>>

\* main.py 92: f.write raised; the with block closes f (delete=False keeps the
\* file) and line 93 is never reached, so tmp_path is still None.
StageWriteFail(t) ==
    /\ req[t].pc = "write"
    /\ Set(t, Raised(req[t], "OSError", "write", MsgStaging))
    /\ UNCHANGED <<envVars, cacheVars, _model_lock, engines, started, files, histVars>>

\* main.py 95-101 -> transcribe.py 65: get_model(model_size=model_size)
TranscribeFileCall(t) ==
    /\ req[t].pc = "recognize"
    /\ \E lang \in LanguagesFor(req[t].kind) :
         GmEnterFrom(t, [req[t] EXCEPT !.language = lang, !.lang_param = LangParam(lang)],
                     req[t].model, None, None)

\* A thread calls transcribe_file(path, model_size=m).
CallTranscribeFile(t) ==
    /\ req[t].pc = "tf_call"
    /\ \E m \in ModelInputs : GmEnter(t, m, None, None)

\* transcribe.py 66-71: model.transcribe(...) is called on the handle get_model
\* returned; the lock is not held.
InferBegin(t) ==
    /\ req[t].pc = "infer"
    /\ Set(t, [req[t] EXCEPT !.pc = "inferring", !.engineCalled = TRUE,
                             !.hint = req[t].lang_param])
    /\ UNCHANGED <<envVars, cacheVars, _model_lock, engines, started, files, histVars>>

\* transcribe.py 72-86: the engine emitted out; transcribe_file returns its
\* tuple, and in a request main.py 102-113 builds the success payload.  The
\* include_timestamps argument is first read here (line 79).
Infer(t) ==
    /\ req[t].pc = "inferring"
    /\ \E out \in OutputsFor(req[t].kind), ts \in BOOLEAN :
         LET res == TranscribeResult(out, ts)
             r == [req[t] EXCEPT !.handle = NoHandle, !.loaded = FALSE,
                                 !.timestamps = ts]
         IN  IF req[t].kind \in {"http", "single"}
             THEN Set(t, [r EXCEPT !.pc = "finally", !.status = 200, !.out = <<out>>,
                                   !.payload = <<Payload(res)>>])
             ELSE Set(t, [r EXCEPT !.pc = "done", !.out = <<out>>, !.result = <<res>>])
    /\ UNCHANGED <<envVars, cacheVars, _model_lock, engines, started, files, histVars>>

\* transcribe.py 66-72: the engine raised.
InferFail(t, e) ==
    /\ req[t].pc = "inferring"
    /\ Set(t, Raised([req[t] EXCEPT !.handle = NoHandle, !.loaded = FALSE],
                     e, "engine", MsgEngine))
    /\ UNCHANGED <<envVars, cacheVars, _model_lock, engines, started, files, histVars>>

\* Mutant: an OSError of os.unlink replaces the request's outcome.
AfterCleanup_Surfaced(r, how) ==
    IF how = "oserror"
    THEN [r EXCEPT !.pc = "done", !.f_name = NoPath, !.tmp_path = NoPath,
                   !.cleanup = how, !.status = 500, !.payload = <<>>,
                   !.detail = "Transcription failed"]
    ELSE [r EXCEPT !.pc = "done", !.f_name = NoPath, !.tmp_path = NoPath,
                   !.cleanup = how]

\* main.py 119-124: the request once the finally block has run: the pending
\* return value or HTTPException leaves the handler, whose locals are gone.
AfterCleanup(r, how) ==
    [r EXCEPT !.pc = "done", !.f_name = NoPath, !.tmp_path = NoPath, !.cleanup = how]

\* main.py 119-124: the finally block.  With tmp_path unset the test of line
\* 120 is false at once.  Otherwise the file is unlinked, or was removed from
\* /tmp before the test of line 120, or is removed between the test and
\* os.unlink, whose OSError line 123 catches.
Cleanup(t) ==
    /\ req[t].pc = "finally"
    /\ files' = FilesAfterCleanup(t)
    /\ \E how \in (IF req[t].tmp_path = NoPath THEN {"skipped"}
                   ELSE CleanupsFor(req[t].kind)) :
         Set(t, AfterCleanup(req[t], how))
    /\ UNCHANGED <<envVars, cacheVars, _model_lock, engines, started, histVars>>

\* ---------------------------------------------------------- specifications
Next ==
    \/ StartupLoaded
    \/ StartupFailed
    \/ \E t \in Threads : Auth(t)
    \/ \E t \in Threads : Validate(t)
    \/ \E t \in Threads : ReadBody(t)
    \/ \E t \in Threads : ReadFail(t)
    \/ \E t \in Threads : SizeCheck(t)
    \/ \E t \in Threads : StageCreate(t)
    \/ \E t \in Threads : StageCreateFail(t)
    \/ \E t \in Threads : StageWrite(t)
    \/ \E t \in Threads : StageWriteFail(t)
    \/ \E t \in Threads : TranscribeFileCall(t)
    \/ \E t \in Threads : GmAcquire(t)
    \/ \E t \in Threads : GmConstructOk(t)
    \/ \E t \in Threads, e \in ExcTypes : GmConstructFail(t, e)
    \/ \E t \in Threads : GmReturn(t)
    \/ \E t \in Threads : InferBegin(t)
    \/ \E t \in Threads : Infer(t)
    \/ \E t \in Threads, e \in ExcTypes : InferFail(t, e)
    \/ \E t \in Threads : Cleanup(t)

Spec == Init /\ [][Next]_vars

NextCache ==
    \/ \E t \in Threads : CallGetModel(t)
    \/ \E t \in Threads : GmAcquire(t)
    \/ \E t \in Threads : GmConstructOk(t)
    \/ \E t \in Threads, e \in ExcTypes : GmConstructFail(t, e)
    \/ \E t \in Threads : GmReturn(t)

\* Every worker thread and the startup handler are scheduled: a step that can
\* be taken is eventually taken.
SpecLive == Spec /\ WF_vars(Next)

SpecCache == InitCache /\ [][NextCache]_vars

\* Every caller of get_model is scheduled.
SpecCacheLive == SpecCache /\ WF_vars(NextCache)

SpecSingle == InitSingle /\ [][Next]_vars

NextFile ==
    \/ \E t \in Threads : CallTranscribeFile(t)
    \/ \E t \in Threads : GmAcquire(t)
    \/ \E t \in Threads : GmConstructOk(t)
    \/ \E t \in Threads, e \in ExcTypes : GmConstructFail(t, e)
    \/ \E t \in Threads : GmReturn(t)
    \/ \E t \in Threads : InferBegin(t)
    \/ \E t \in Threads : Infer(t)
    \/ \E t \in Threads, e \in ExcTypes : InferFail(t, e)

SpecFile == InitFile /\ [][NextFile]_vars

\* ================================================================== claims
\* Threads whose get_model call got past line 28 (they reach, or reached, the lock).
PastValidation(t) ==
    \/ req[t].pc \in {"gm_lock", "gm_load", "gm_hit", "infer", "inferring"}
    \/ req[t].gmCalled /\ req[t].pc \in {"finally", "done"} /\ req[t].excAt # "get_model"

RequestedTriples == {ReqTriple(t) : t \in {u \in Threads : PastValidation(u)}}

InCriticalSection(t) == req[t].pc \in {"gm_load", "gm_hit"}

Returned(t) == req[t].pc = "done" /\ req[t].excType = None

\* C1: while every get_model call made so far asked for one and the same
\* resolved (model, device, precision) triple, at most one engine has been
\* constructed under any interleaving; a caller arriving while another is
\* constructing waits outside the critical section; and every caller that has
\* returned holds that one engine.
C1_OneConstruction ==
    Cardinality(RequestedTriples) <= 1 =>
        /\ Len(engines) <= 1
        /\ \A t, u \in Threads :
             InCriticalSection(t) /\ InCriticalSection(u) => t = u
        /\ \A t \in Threads :
             Returned(t) => Len(engines) = 1 /\ req[t].handle = 1

\* Two callers with the same triple have both returned: one constructed, the
\* other did not, and both hold the same handle.
C1_Witness ==
    \E t, u \in Threads :
        /\ t # u /\ Returned(t) /\ Returned(u)
        /\ Cardinality(RequestedTriples) = 1
        /\ req[t].loaded /\ ~req[u].loaded
        /\ req[t].handle = req[u].handle

\* The reload condition of C2, written on the cache's fields.
CacheDiffers(t) ==
    \/ _model = NoHandle
    \/ <<_loaded_model_name, _loaded_device, _loaded_compute_type>>
         # <<ReqTriple(t).model_size, ReqTriple(t).device, ReqTriple(t).compute_type>>

\* C2: a get_model call that takes the lock goes on to construct an engine iff
\* the cache is empty or the stored triple differs from the requested one in
\* some field; engines are constructed by such calls only; and a call that
\* returns right after a successful call with the same triple returns the same
\* handle without having constructed.
C2_ConstructIffDiffers ==
    /\ [][\A t \in Threads :
            /\ (req[t].pc = "gm_lock" /\ req'[t].pc # "gm_lock") =>
                 /\ req[t].model \in {"base", "small", "medium", "large-v2", "large-v3"}
                 /\ (req'[t].pc = "gm_load" <=> CacheDiffers(t))
                 /\ (req'[t].pc = "gm_hit" <=> ~CacheDiffers(t))
            /\ (req[t].pc = "gm_hit" /\ req'[t].pc # "gm_hit"
                  /\ lastOk.handle # NoHandle /\ lastOk.triple = ReqTriple(t)) =>
                 /\ req'[t].handle = lastOk.handle
                 /\ ~req[t].loaded
                 /\ req'[t].excType = None]_vars
    /\ [][engines' # engines =>
            \E t \in Threads : req[t].pc = "gm_load" /\ req'[t].loaded]_vars

\* A call has returned the handle of the previous successful call without loading.
C2_Witness ==
    \E t \in Threads :
        /\ Returned(t) /\ ~req[t].loaded
        /\ req[t].handle # NoHandle
        /\ lastOk = [triple |-> ReqTriple(t), handle |-> req[t].handle]
        /\ \E u \in Threads : u # t /\ req[u].loaded /\ req[u].handle = req[t].handle

\* C3: when the constructor raises inside get_model the cached handle and the
\* recorded triple are what they were before the call, no engine has been
\* added, the lock is free, the caller receives the exception, and the next
\* call with that triple to take the lock constructs again.
C3_FailedLoadLeavesCache ==
    /\ [][\A t \in Threads :
            (req[t].pc = "gm_load" /\ req'[t].excAt = "construct") =>
                /\ _model' = _model
                /\ _loaded_model_name' = _loaded_model_name
                /\ _loaded_device' = _loaded_device
                /\ _loaded_compute_type' = _loaded_compute_type
                /\ engines' = engines
                /\ _model_lock' = NoThread
                /\ req'[t].pc = "done"
                /\ req'[t].excType \in ExcTypes
                /\ req'[t].handle = NoHandle]_vars
    /\ [][\A u \in Threads :
            (req[u].pc = "gm_lock" /\ req'[u].pc # "gm_lock"
               /\ lastFail = ReqTriple(u)) => req'[u].pc = "gm_load"]_vars

\* A construction raised while the cache held an engine for another triple:
\* that engine is still the cached one and the lock is free.
C3_Witness ==
    \E t, u \in Threads :
        /\ t # u
        /\ req[t].pc = "done" /\ req[t].excAt = "construct"
        /\ Returned(u) /\ req[u].loaded
        /\ ReqTriple(u) # ReqTriple(t)
        /\ _model = req[u].handle
        /\ _loaded_model_name = ReqTriple(u).model_size
        /\ _model_lock = NoThread

Finished(t) == req[t].pc = "done"

\* The file the request created in /tmp is still there.
OwnFileExists(t) == \E f \in files : f.creator = t

\* C4: once a request whose temp file was staged (written, its path recorded
\* in tmp_path) has completed, with whatever outcome, that file does not exist.
C4_StagedFileRemoved ==
    \A t \in Threads :
        Finished(t) /\ req[t].staged => ~OwnFileExists(t)

\* One request completed after an engine failure and another after a success,
\* both with a staged file.
C4_Witness ==
    \E t, u \in Threads :
        /\ Finished(t) /\ req[t].staged /\ req[t].excAt = "engine"
        /\ Finished(u) /\ req[u].staged /\ req[u].status = 200

\* C5: a request whose staging failed (creating the temp file, or writing to
\* it) ends with status 500, and no completed request leaves a temp file behind.
C5_NoLeakedFile ==
    \A t \in Threads :
        Finished(t) =>
            /\ req[t].excAt \in {"create", "write"} => req[t].status = 500
            /\ ~OwnFileExists(t)

\* C6: a request in which the engine raised during transcribe_file ends with
\* status 500 and a detail that is not the engine's message.
C6_EngineErrorGeneric ==
    \A t \in Threads :
        Finished(t) /\ req[t].excAt = "engine" =>
            /\ req[t].status = 500
            /\ req[t].detail # MsgEngine

KeyChecked(t) == req[t].pc # "start"

NothingTouched(t) ==
    /\ ~req[t].bodyRead
    /\ ~req[t].created
    /\ req[t].tmp_path = NoPath /\ ~req[t].staged
    /\ ~OwnFileExists(t)
    /\ ~req[t].gmCalled
    /\ ~req[t].engineCalled
    /\ req[t].handle = NoHandle

\* C7: with a secret configured, a request whose X-API-Key is missing, empty or
\* different from the secret is answered 401 and has created no temp file and
\* called neither get_model nor the engine.
C7_BadKeyIs401 ==
    \A t \in Threads :
        (/\ KeyChecked(t)
         /\ TRANSCRIBE_API_KEY # ""
         /\ (req[t].x_api_key \in {None, ""} \/ req[t].x_api_key # TRANSCRIBE_API_KEY)) =>
            /\ Finished(t)
            /\ req[t].status = 401
            /\ NothingTouched(t)

\* A request with a wrong key and one with no key were both answered 401.
C7_Witness ==
    \E t, u \in Threads :
        /\ TRANSCRIBE_API_KEY = "k1"
        /\ req[t].x_api_key = "k2" /\ req[t].status = 401
        /\ req[u].x_api_key = None /\ req[u].status = 401

\* C8: with no secret configured, every request, whatever its X-API-Key, is
\* answered 500 and never reaches staging or the engine.
C8_NoSecretFailsClosed ==
    TRANSCRIBE_API_KEY = "" =>
        \A t \in Threads :
            KeyChecked(t) =>
                /\ Finished(t)
                /\ req[t].status = 500
                /\ NothingTouched(t)

\* With no secret, a request with an empty key and one with a non-empty key
\* were both answered 500.
C8_Witness ==
    \E t, u \in Threads :
        /\ TRANSCRIBE_API_KEY = ""
        /\ req[t].x_api_key = "" /\ req[t].status = 500
        /\ req[u].x_api_key = "k1" /\ req[u].status = 500

\* C9: an authenticated request whose model is not one of base, small, medium,
\* large-v2, large-v3 is answered 400 with the body unread, no temp file
\* created and no call to get_model or the engine.
C9_BadModelIs400 ==
    \A t \in Threads :
        (/\ req[t].model # None
         /\ req[t].model \notin {"base", "small", "medium", "large-v2", "large-v3"}) =>
            /\ req[t].x_api_key = TRANSCRIBE_API_KEY
            /\ Finished(t)
            /\ req[t].status = 400
            /\ NothingTouched(t)

\* An authenticated request for model "tiny" was answered 400.
C9_Witness ==
    \E t \in Threads :
        /\ req[t].model = "tiny" /\ req[t].x_api_key = "k1"
        /\ Finished(t) /\ req[t].status = 400

StagingReached(t) ==
    req[t].pc = "stage" \/ req[t].created \/ req[t].excAt = "create"

\* C10: a body longer than the maximum is answered 413 by the size check,
\* which follows the read, and no temp file is ever created for it; a body of
\* exactly the maximum length passes the size check and reaches staging.
C10_SizeLimit ==
    \A t \in Threads :
        /\ req[t].size > MAX_UPLOAD_BYTES =>
             /\ req[t].bodyRead
             /\ ~req[t].created /\ ~req[t].staged /\ ~OwnFileExists(t)
             /\ req[t].pc \in {"sizecheck", "done"}
             /\ Finished(t) => req[t].status = 413
        /\ (req[t].size = MAX_UPLOAD_BYTES /\ req[t].pc # "sizecheck") =>
             /\ req[t].status # 413
             /\ StagingReached(t)

\* One request was answered 413 for a body one byte over the maximum while
\* another, with a body of exactly the maximum, has its temp file staged.
C10_Witness ==
    \E t, u \in Threads :
        /\ req[t].size = MAX_UPLOAD_BYTES + 1 /\ req[t].status = 413
        /\ req[u].size = MAX_UPLOAD_BYTES /\ req[u].tmp_path # NoPath
        /\ OwnFileExists(u)

\* ------------------------------------------------ transcribe_file's result
HasResult(t) == req[t].result # <<>>
EngineOut(t) == req[t].out[1]
Result(t) == req[t].result[1]
LastEnd(out) == out.segments[Len(out.segments)].end

\* C12: the duration transcribe_file returns is 0 when the engine reported no
\* duration and emitted no segment, the end time of the last segment when it
\* reported no duration and emitted segments, and the reported duration otherwise.
C12_DurationFallback ==
    \A t \in Threads :
        HasResult(t) =>
            LET out == EngineOut(t)
                d == Result(t).duration_sec
            IN  /\ (out.duration = NoDuration /\ out.segments = <<>>) => d = 0
                /\ (out.duration = NoDuration /\ out.segments # <<>>) => d = LastEnd(out)
                /\ out.duration # NoDuration => d = out.duration

\* A result whose duration came from the last of two segments.
C12_Witness ==
    \E t \in Threads :
        /\ HasResult(t)
        /\ EngineOut(t).duration = NoDuration
        /\ Len(EngineOut(t).segments) = 2
        /\ Result(t).duration_sec = 2346

\* C13: for one engine output, transcribe_file returns the same text, language
\* and duration with include_timestamps false and true; the segment list is
\* empty when false and has one entry per engine segment when true.  The result
\* the call produced is the one of its flag.
C13_FlagOnlyChangesSegments ==
    \A t \in Threads :
        HasResult(t) =>
            LET with == TranscribeResult(EngineOut(t), TRUE)
                without == TranscribeResult(EngineOut(t), FALSE)
            IN  /\ Result(t) = IF req[t].timestamps THEN with ELSE without
                /\ with.text = without.text
                /\ with.detected = without.detected
                /\ with.duration_sec = without.duration_sec
                /\ without.segments = <<>>
                /\ Len(with.segments) = Len(EngineOut(t).segments)

\* A call without timestamps on an output of two segments returned a text and
\* no segment.
C13_Witness ==
    \E t \in Threads :
        /\ HasResult(t) /\ ~req[t].timestamps
        /\ Len(EngineOut(t).segments) = 2
        /\ Result(t).text # <<>>
        /\ Result(t).segments = <<>>

\* C20: the text transcribe_file returns is the trimmed, space-joined
\* concatenation of each segment's own trimmed text in emission order, and the
\* segments of the result are the engine's, in the engine's order.
C20_TextOfTrimmedSegments ==
    \A t \in Threads :
        HasResult(t) =>
            LET segs == EngineOut(t).segments IN
            /\ Result(t).text =
                 Strip(Join(<<" ">>, [i \in 1..Len(segs) |-> Strip(segs[i].text)]))
            /\ \A i \in 1..Len(Result(t).segments) :
                 /\ Result(t).segments[i].start = segs[i].start
                 /\ Result(t).segments[i].end = segs[i].end

\* ------------------------------------------------------- request lifecycle
OneOutcome(t) ==
    \/ /\ req[t].status = 200
       /\ Len(req[t].payload) = 1
       /\ DOMAIN req[t].payload[1] = {"language", "duration_sec", "text", "segments"}
       /\ req[t].detail = None
    \/ /\ req[t].status \in {400, 401, 413, 500}
       /\ req[t].payload = <<>>
       /\ req[t].detail # None

\* C11: a completed request has exactly one outcome, a complete success
\* payload or an error payload, which never changes afterwards; and every
\* request that has entered the handler eventually completes.
C11_OneOutcomeEventually ==
    /\ [](\A t \in Threads : Finished(t) => OneOutcome(t))
    /\ [][\A t \in Threads : Finished(t) => req'[t] = req[t]]_vars
    /\ \A t \in Threads : (req[t].pc # "start") ~> Finished(t)

\* Both kinds of outcome have been delivered.
C11_Witness ==
    \E t, u \in Threads :
        /\ Finished(t) /\ req[t].status = 200 /\ req[t].payload # <<>>
        /\ Finished(u) /\ req[u].status = 500 /\ req[u].excAt = "construct"

\* The thread has taken the lock in get_model.
Acquired(t) == req[t].gmCalled /\ req[t].pc # "gm_lock"

NoneAcquired == \A u \in Threads : ~Acquired(u)

\* C14: startup completes whether the warm-up raises or not; after a failed
\* warm-up the cache is empty and the first request to reach get_model
\* constructs; after a successful one the cache holds the engine of "small"
\* with the default device and precision, and the first request to reach
\* get_model, if it asks for "small", does not construct.
C14_WarmUp ==
    /\ [][~started => started']_vars
    /\ []((started /\ NoneAcquired) =>
            \/ /\ engines = <<>>
               /\ _model = NoHandle
               /\ lastFail = Triple("small", None, None)
            \/ /\ Len(engines) = 1
               /\ _model = 1
               /\ engines[1] = Triple("small", None, None)
               /\ <<_loaded_model_name, _loaded_device, _loaded_compute_type>>
                    = <<"small", ResolveDevice(None),
                        ResolveComputeType(ResolveDevice(None), None)>>)
    /\ [][\A t \in Threads :
            (req[t].pc = "gm_lock" /\ req'[t].pc # "gm_lock" /\ NoneAcquired) =>
                /\ engines = <<>> => req'[t].pc = "gm_load"
                /\ (engines # <<>> /\ req[t].model = "small") => req'[t].pc = "gm_hit"]_vars

\* The warm-up failed and the first request has constructed the engine itself.
C14_Witness ==
    \E t \in Threads :
        /\ req[t].pc = "gm_hit" /\ req[t].loaded
        /\ Len(engines) = 1
        /\ lastFail = Triple("small", None, None)
        /\ \A u \in Threads : u # t => ~Acquired(u)

\* C15: no two transcribe_file calls run the engine on the same handle at the
\* same time.
C15_InferenceSerialized ==
    \A t, u \in Threads :
        (/\ req[t].pc = "inferring"
         /\ req[u].pc = "inferring"
         /\ req[t].handle = req[u].handle) => t = u

\* The handles in use: the cache slot and those held by transcribe_file calls
\* between get_model's return and the end of inference.
LiveHandles ==
    ({_model} \cup {req[t].handle : t \in {u \in Threads : req[u].pc \in {"infer", "inferring"}}})
        \ {NoHandle}

\* C16: at most one engine handle is live at any time, the cache slot and the
\* handles of in-flight transcribe_file calls taken together.
C16_OneLiveHandle == Cardinality(LiveHandles) <= 1

\* C17: at most one construction is in progress at a time, whatever the
\* triples asked for; a thread is between the check and the return of
\* get_model exactly while it holds _model_lock; the slot and the triple
\* change only in a step of the lock's holder, and a caller's handle is read
\* from the slot while it holds the lock.
C17_CacheOnlyUnderLock ==
    /\ [](\A t, u \in Threads :
            (req[t].pc = "gm_load" /\ req[u].pc = "gm_load") => t = u)
    /\ [](\A t \in Threads : InCriticalSection(t) <=> _model_lock = t)
    /\ [][(cacheVars' # cacheVars \/ engines' # engines) =>
            \E t \in Threads :
                _model_lock = t /\ _model_lock' = t /\ req[t].pc = "gm_load"]_vars
    /\ [][\A t \in Threads :
            req'[t].handle # req[t].handle =>
                _model_lock = t /\ req'[t].handle = _model]_vars

\* One thread constructs under the lock while a thread asking for another
\* triple waits for it.
C17_Witness ==
    \E t, u \in Threads :
        /\ req[t].pc = "gm_load" /\ _model_lock = t
        /\ req[u].pc = "gm_lock"
        /\ ReqTriple(u) # ReqTriple(t)

\* C18: a request holds _model_lock only between the check and the return of
\* get_model; it does not hold it while reading the body, checking the size,
\* staging its temp file, running the engine or cleaning up.
C18_LockOnlyInGetModel ==
    \A t \in Threads :
        /\ _model_lock = t => req[t].pc \in {"gm_load", "gm_hit"}
        /\ req[t].pc \in {"start", "validate", "read", "sizecheck", "stage", "write",
                          "recognize", "gm_lock", "infer", "inferring", "finally",
                          "done"} => _model_lock # t

\* One request is constructing under the lock while another writes its temp file.
C18_Witness ==
    \E t, u \in Threads :
        /\ _model_lock = t /\ req[t].pc = "gm_load"
        /\ req[u].pc = "write" /\ OwnFileExists(u)

\* C19: the engine is reached only by a request that passed the key, model and
\* size checks and whose temp file is staged, and the file exists while the
\* engine runs; a request whose temp file was staged completes only through
\* the finally block, after which the file is gone, so a failure after staging
\* is surfaced only after the cleanup.
C19_LifecycleOrder ==
    /\ [](\A t \in Threads :
            /\ (req[t].gmCalled \/ req[t].engineCalled
                  \/ req[t].pc \in {"infer", "inferring"}) =>
                 /\ req[t].x_api_key = TRANSCRIBE_API_KEY /\ TRANSCRIBE_API_KEY # ""
                 /\ req[t].model \in {"base", "small", "medium", "large-v2", "large-v3"}
                 /\ req[t].bodyRead /\ req[t].size <= MAX_UPLOAD_BYTES
                 /\ req[t].staged
            /\ req[t].engineCalled => req[t].gmCalled
            /\ req[t].pc \in {"gm_lock", "gm_load", "gm_hit", "infer", "inferring"} =>
                 OwnFileExists(t))
    /\ [][\A t \in Threads :
            (req'[t].pc = "done" /\ req[t].pc # "done" /\ req[t].tmp_path # NoPath) =>
                /\ req[t].pc = "finally"
                /\ \A f \in files' : f.creator # t
                /\ req'[t].status = req[t].status]_vars

\* A request whose engine call failed after staging has completed with its
\* error, its file removed.
C19_Witness ==
    \E t \in Threads :
        /\ Finished(t) /\ req[t].excAt = "engine" /\ req[t].status = 500
        /\ req[t].engineCalled
        /\ req[t].staged /\ ~OwnFileExists(t)

\* ------------------------------------------------------------ staged files
\* The request is between the recording of its staged path and its cleanup.
HoldsPath(t) == req[t].tmp_path # NoPath

\* The request has staged its file and has not yet run the engine on it.
BeforeRecognition(t) ==
    req[t].pc \in {"recognize", "gm_lock", "gm_load", "gm_hit", "infer", "inferring"}

FilesOfOthers(t, fs) == {f \in fs : f.creator # t}

\* C25: two requests in flight never hold the same staged path; a step of a
\* request, its cleanup included, neither removes nor changes a file that
\* another request created; and from staging until its own recognition step
\* has ended a request's file exists under the path the request holds.
C25_NoSharedStagedFile ==
    /\ [](\A t, u \in Threads :
            (HoldsPath(t) /\ HoldsPath(u) /\ req[t].tmp_path = req[u].tmp_path) => t = u)
    /\ [][\A t \in Threads :
            req'[t] # req[t] => FilesOfOthers(t, files') = FilesOfOthers(t, files)]_vars
    /\ [](\A t \in Threads :
            BeforeRecognition(t) =>
                \E f \in files : f.name = req[t].tmp_path /\ f.creator = t)

\* A request that staged while another one's file existed is running the
\* engine after the other has cleaned up: its own file is still there.
C25_Witness ==
    \E t, u \in Threads :
        /\ t # u
        /\ Finished(u) /\ req[u].staged /\ ~OwnFileExists(u)
        /\ req[t].pc = "inferring" /\ req[t].tmp_path = 2
        /\ \E f \in files : f.name = 2 /\ f.creator = t

\* --------------------------------------------------- one request in detail
\* The outcome of a request: what the caller receives.
Outcome(r) == <<r.status, r.payload, r.detail>>

\* C21: the finally block never changes the outcome of a request, whether it
\* unlinks the staged file, finds it already gone or has os.unlink raise an
\* OSError: a request that completed after a failed cleanup returns its success
\* payload if the transcription succeeded and its error if it failed.
C21_CleanupFailureSuppressed ==
    /\ [][\A t \in Threads :
            (req[t].pc = "finally" /\ req'[t].pc = "done") =>
                /\ Outcome(req'[t]) = Outcome(req[t])
                /\ req'[t].excType = req[t].excType]_vars
    /\ [](\A t \in Threads :
            (Finished(t) /\ req[t].cleanup \in {"gone", "oserror"}) =>
                /\ ~OwnFileExists(t)
                /\ req[t].excType = None =>
                     req[t].status = 200 /\ Len(req[t].payload) = 1
                /\ req[t].excType # None =>
                     /\ req[t].status \in {400, 500}
                     /\ req[t].payload = <<>>
                     /\ req[t].detail # None)

\* A transcription succeeded, os.unlink raised in the finally block, and the
\* request returned its success payload.
C21_Witness ==
    \E t \in Threads :
        /\ Finished(t) /\ req[t].cleanup = "oserror"
        /\ req[t].status = 200 /\ req[t].payload # <<>>

AllSpaces(s) == \A i \in 1..Len(s) : s[i] = " "

\* h is s without its leading and trailing spaces, s not being all spaces.
IsTrimOf(h, s) ==
    /\ h # <<>> /\ h[1] # " " /\ h[Len(h)] # " "
    /\ \E i \in 1..Len(s) :
         /\ i + Len(h) - 1 <= Len(s)
         /\ SubSeq(s, i, i + Len(h) - 1) = h
         /\ AllSpaces(SubSeq(s, 1, i - 1))
         /\ AllSpaces(SubSeq(s, i + Len(h), Len(s)))

\* C22: the language the engine is called with is None when the request's
\* language field is missing, empty or all spaces, and otherwise the field
\* without its leading and trailing spaces.
C22_LanguageHintTrimmed ==
    \A t \in Threads :
        req[t].engineCalled =>
            IF req[t].language = <<>> \/ AllSpaces(req[t].language[1])
            THEN req[t].hint = <<>>
            ELSE /\ req[t].hint # <<>>
                 /\ IsTrimOf(req[t].hint[1], req[t].language[1])

\* The engine was called with "fr" for the field " fr ".
C22_Witness ==
    \E t \in Threads :
        /\ req[t].engineCalled
        /\ req[t].language = << <<" ", "f", "r", " ">> >>
        /\ req[t].hint = << <<"f", "r">> >>

\* C23: the language of a success response is the one the engine reported,
\* or "en" when the engine reported none (None or the empty string); it is
\* never None or empty.
C23_LanguageDefault ==
    \A t \in Threads :
        (req[t].status = 200 /\ req[t].payload # <<>>) =>
            LET reported == EngineOut(t).language
                lang == req[t].payload[1].language
            IN  /\ lang \notin {None, ""}
                /\ reported \notin {None, ""} => lang = reported
                /\ reported \in {None, ""} => lang = "en"

\* A success response carries "en" for an engine that reported no language.
C23_Witness ==
    \E t \in Threads :
        /\ Finished(t) /\ req[t].status = 200
        /\ EngineOut(t).language = None
        /\ req[t].payload[1].language = "en"

\* The declared extension of a filename: its final path component from the
\* last dot on, when that dot is neither the component's first nor its last
\* character; empty when there is none.
DeclaredExtension(filename) ==
    LET n == IF filename = <<>> THEN <<>> ELSE filename[1]
        C == {k \in 2..(Len(n) - 1) :
                /\ n[k] = "." /\ n[k - 1] # "/"
                /\ \A j \in (k + 1)..Len(n) : n[j] \notin {".", "/"}}
    IN  IF C = {} THEN <<>> ELSE SubSeq(n, CHOOSE k \in C : TRUE, Len(n))

\* C24: the suffix of every staged temp file is one of .m4a, .mp3, .wav,
\* .webm, .ogg, .flac, .bin: the declared extension of the request's filename
\* when that is one of them, and .bin when the filename has no extension or
\* another one.
C24_StagedSuffix ==
    LET allowed == {<<".", "m4a">>, <<".", "mp3">>, <<".", "wav">>, <<".", "webm">>,
                    <<".", "ogg">>, <<".", "flac">>, <<".", "bin">>}
    IN  /\ \A f \in files : f.suffix = req[f.creator].suffix
        /\ \A t \in Threads :
             req[t].created =>
                LET ext == DeclaredExtension(req[t].filename) IN
                /\ req[t].suffix \in allowed
                /\ ext \in allowed => req[t].suffix = ext
                /\ ext \notin allowed => req[t].suffix = <<".", "bin">>

\* A file declared as a.MP3 is staged with the suffix .bin.
C24_Witness ==
    \E f \in files :
        /\ f.suffix = <<".", "bin">>
        /\ req[f.creator].filename = << <<"a", ".", "MP3">> >>

\* ------------------------------------------------- the cache under eviction
\* C26: while a request is between get_model's return and the end of its
\* inference, the handle it holds is an engine constructed with the model the
\* request asked for and with the device and precision resolved for it, also
\* when the cache slot has been given to another engine in the meantime.
C26_HandleMatchesRequest ==
    \A t \in Threads :
        req[t].pc \in {"infer", "inferring"} =>
            /\ req[t].handle \in 1..Len(engines)
            /\ engines[req[t].handle].model_size = req[t].model
            /\ engines[req[t].handle].device = ResolveDevice(None)
            /\ engines[req[t].handle].compute_type =
                 ResolveComputeType(ResolveDevice(None), None)

\* A request runs inference on the engine of its model after the cache slot
\* was given to an engine of another model.
C26_Witness ==
    \E t \in Threads :
        /\ req[t].pc = "inferring"
        /\ _model \notin {NoHandle, req[t].handle}
        /\ engines[req[t].handle].model_size = req[t].model
        /\ engines[_model].model_size # req[t].model

\* C27: whenever _model_lock is free the recorded triple is the one the
\* cached engine was constructed with, and the three fields are unset exactly
\* when the cache is empty; the step in which a get_model call returns or
\* raises leaves the lock not held by the caller, free if the caller held it;
\* and every caller waiting for the lock eventually gets it.
C27_TripleMatchesCache ==
    /\ [](_model_lock = NoThread =>
            /\ _model = NoHandle =>
                 /\ _loaded_model_name = None
                 /\ _loaded_device = None
                 /\ _loaded_compute_type = None
            /\ _model # NoHandle =>
                 /\ _model \in 1..Len(engines)
                 /\ _loaded_model_name = engines[_model].model_size
                 /\ _loaded_device = engines[_model].device
                 /\ _loaded_compute_type = engines[_model].compute_type
                 /\ None \notin {_loaded_model_name, _loaded_device, _loaded_compute_type})
    /\ [][\A t \in Threads :
            (req[t].pc # "done" /\ req'[t].pc = "done") =>
                /\ _model_lock' # t
                /\ _model_lock = t => _model_lock' = NoThread]_vars
    /\ \A t \in Threads : (req[t].pc = "gm_lock") ~> (req[t].pc # "gm_lock")

\* A construction raised on an empty cache and released the lock; the next
\* caller, asking for the same triple, took the lock, constructed and returned.
C27_Witness ==
    \E t, u \in Threads :
        /\ req[t].pc = "done" /\ req[t].excAt = "construct"
        /\ Returned(u) /\ req[u].loaded
        /\ ReqTriple(u) = ReqTriple(t)
        /\ Len(engines) = 1 /\ _model = 1
        /\ _model_lock = NoThread

====
